---- MODULE Spec2Model ----
(***************************************************************************)
(* Model of the RC chimney analysis workbook (src/app.py).                 *)
(*                                                                         *)
(* Numbers.  The program computes in float64.  Here every quantity is a    *)
(* fixed-point integer counting hundredths (Scale) of the program's unit:  *)
(* 30.3 m is 3030, 0.2 m is 20, 2.5 t/m3 is 250.  Addition, subtraction,   *)
(* comparison and multiplication by an integer are exact; a product or a   *)
(* quotient of two quantities is rounded toward zero to the next hundredth *)
(* (FMul, FDiv), as the float operation rounds to the next float.          *)
(*                                                                         *)
(* Tables.  A pandas DataFrame is a function from column names to columns; *)
(* a column is a sequence indexed 1..N (row i here is row i-1 in pandas).  *)
(***************************************************************************)
EXTENDS Integers, Sequences, FiniteSets, TLC

VARIABLES
    params,         \* st.session_state.params
    workbook_data,  \* st.session_state.workbook_data (None or the level table)
    base_shear,     \* base_shear of the current script run (tab 3)
    df_stress,      \* df_stress of the current script run (tab 4)
    pc,             \* position of the script run, "idle" between runs
    event,          \* the widget event the current script run was started by
    fault,          \* the exception that ended the last script run, or "none"
    actions         \* number of user actions so far

vars == <<params, workbook_data, base_shear, df_stress, pc, event, fault, actions>>

\* Number of user actions explored.
MaxActions == 3

---------------------------------------------------------------------------
\* Fixed-point arithmetic

Scale == 10 * 10

Abs(x) == IF x < 0 THEN -x ELSE x

Max(a, b) == IF a >= b THEN a ELSE b

\* a / b rounded toward zero (b # 0)
Quot(a, b) ==
    IF (a >= 0) = (b > 0) THEN Abs(a) \div Abs(b) ELSE -(Abs(a) \div Abs(b))

FMul(a, b) == Quot(a * b, Scale)

FDiv(a, b) == Quot(a * Scale, b)

RECURSIVE SumSeq(_)
SumSeq(s) == IF s = << >> THEN 0 ELSE s[1] + SumSeq(Tail(s))

\* pandas Series.min()
RECURSIVE MinSeq(_)
MinSeq(s) ==
    IF Len(s) = 1 THEN s[1]
    ELSE LET m == MinSeq(Tail(s)) IN IF s[1] <= m THEN s[1] ELSE m

\* np.pi
np_pi == 314

None == << >>

NoEvent == [kind |-> "none", name |-> "", row |-> 0, val |-> 0]

\* df[c] = v
SetCol(df, c, v) == [k \in DOMAIN df \cup {c} |-> IF k = c THEN v ELSE df[k]]

---------------------------------------------------------------------------
\* Session state defaults

DefaultParams ==
    [total_height |-> 3000, top_inner_dia |-> 135, thickness |-> 20,
     conc_density |-> 250, wind_speed |-> 4700, seismic_zone |-> 16]

---------------------------------------------------------------------------
\* 1. Sheet 1: dead loads and geometry

\* Mutant of levels: the two below-grade elevations in the wrong order
levels_disordered ==
    <<3030, 3000, 2750, 2500, 2250, 2000, 1750, 1500, 1250, 1000, 750, 500,
      250, 0, -300, -170>>

\* Hardcoded elevations, top to raft
levels ==
    <<3030, 3000, 2750, 2500, 2250, 2000, 1750, 1500, 1250, 1000, 750, 500,
      250, 0, -170, -300>>

N == Len(levels)

Rows == 1..N

inner_dia_of(p) == p.top_inner_dia

\* outer_dia = inner_dia + (2 * params['thickness'])
outer_dia_of(p) == p.top_inner_dia + 2 * p.thickness

Sq(x) == FMul(x, x)

Pow4(x) == FMul(Sq(x), Sq(x))

\* area = (np.pi / 4) * (outer_dia**2 - inner_dia**2)
area_of(outer, inner) == FMul(Quot(np_pi, 4), Sq(outer) - Sq(inner))

\* inertia = (np.pi / 64) * (outer_dia**4 - inner_dia**4)
inertia_of(outer, inner) == FMul(Quot(np_pi, 64), Pow4(outer) - Pow4(inner))

\* the divisor (outer_dia / 2) of z_mod
half_of(outer) == Quot(outer, 2)

\* z_mod = inertia / (outer_dia / 2); float division, the divisor is not zero
z_mod_of(inertia, outer) == FDiv(inertia, half_of(outer))

\* The float division of z_mod raises ZeroDivisionError on a zero divisor
\* (np.pi is a Python float, so every operand is a Python float).
generate_raises(p) == half_of(outer_dia_of(p)) = 0

\* Mutant of height_segment: the manual fix for the top rows left out
height_segment_nofix(i) == IF i < N THEN levels[i] - levels[i + 1] ELSE 0

\* Height of segment calculation, with the manual fix for the top rows
height_segment(i) ==
    LET lvl == levels[i]
        h0 == IF i < N THEN lvl - levels[i + 1] ELSE 0
        h1 == IF lvl = 3030 THEN 0 ELSE h0
    IN  IF lvl = 3000 THEN 30 ELSE h1

\* shell_wt = area * height_segment * params['conc_density']
shell_wt_of(area, h, density) == FMul(FMul(area, h), density)

\* generate_sheet_1(params), when it returns
generate_sheet_1(p) ==
    LET inner == inner_dia_of(p)
        outer == outer_dia_of(p)
        area == area_of(outer, inner)
        inertia == inertia_of(outer, inner)
        z_mod == z_mod_of(inertia, outer)
    IN  [Level |-> levels,
         Segment_H |-> [i \in Rows |-> height_segment(i)],
         Outer_Dia |-> [i \in Rows |-> outer],
         Inner_Dia |-> [i \in Rows |-> inner],
         Thickness |-> [i \in Rows |-> p.thickness],
         Area |-> [i \in Rows |-> area],
         Inertia |-> [i \in Rows |-> inertia],
         Z_Modulus |-> [i \in Rows |-> z_mod],
         Shell_Wt |-> [i \in Rows |->
                          shell_wt_of(area, height_segment(i), p.conc_density)],
         Liner_Load |-> [i \in Rows |-> 0],
         Platform_Load |-> [i \in Rows |-> 0],
         Corbel_Load |-> [i \in Rows |-> 0]]

---------------------------------------------------------------------------
\* Cumulative sums and the cantilever moment step shared by sheets 2 and 3

\* Series.cumsum(): a running total, top row first
RECURSIVE cumsum_from(_, _, _)
cumsum_from(s, i, acc) ==
    IF i > Len(s) THEN << >>
    ELSE <<acc + s[i]>> \o cumsum_from(s, i + 1, acc + s[i])

\* Mutant of cumsum: the running total is not carried to the next row
cumsum_no_carry(s) == [i \in 1..Len(s) |-> s[i]]

cumsum(s) == cumsum_from(s, 1, 0)

\* Mutant of moments_of: the step takes the shear and height of row i
moments_off_by_one(shear, seg) ==
    LET M[i \in 1..Len(shear)] ==
            IF i = 1 THEN 0 ELSE M[i - 1] + FMul(shear[i], seg[i])
    IN  [i \in 1..Len(shear) |-> M[i]]

\* moments[i] = moments[i-1] + shear[i-1] * Segment_H[i-1], moments[0] = 0.0
moments_of(shear, seg) ==
    LET M[i \in 1..Len(shear)] ==
            IF i = 1 THEN 0 ELSE M[i - 1] + FMul(shear[i - 1], seg[i - 1])
    IN  [i \in 1..Len(shear) |-> M[i]]

---------------------------------------------------------------------------
\* 2. Sheet 2: wind loads

k1 == 100

k3 == 100

cd == 80

\* Simplified k2 table (terrain category 2)
get_k2(h) ==
    IF h <= 1000 THEN 100
    ELSE IF h <= 1500 THEN 105
    ELSE IF h <= 2000 THEN 107
    ELSE IF h <= 3000 THEN 112
    ELSE 115

\* the loop body: force_ton of one row
wind_force_ton(level, outer, seg, vb) ==
    LET h_calc == IF level > 0 THEN level ELSE 0
        k2 == get_k2(h_calc)
        vz == FMul(FMul(FMul(vb, k1), k2), k3)
        pz == Quot(FMul(60, Sq(vz)), 1000)
        projected_area == FMul(outer, seg)
        force_kn == FMul(FMul(pz, projected_area), cd)
    IN  FDiv(force_kn, 981)

calculate_sheet_2(df, vb) ==
    LET wind_forces == [i \in Rows |->
            wind_force_ton(df.Level[i], df.Outer_Dia[i], df.Segment_H[i], vb)]
        df1 == SetCol(df, "Wind_Force_Ton", wind_forces)
        df2 == SetCol(df1, "Wind_Shear", cumsum(df1.Wind_Force_Ton))
    IN  SetCol(df2, "Wind_Moment", moments_of(df2.Wind_Shear, df2.Segment_H))

---------------------------------------------------------------------------
\* 3. Sheet 3: seismic loads

I_factor == 150

R_factor == 300

Sa_g == 250

\* Ah = (zone_factor / 2) * (I / R) * Sa_g
Ah_of(zone_factor) ==
    FMul(FMul(Quot(zone_factor, 2), FDiv(I_factor, R_factor)), Sa_g)

\* Qi = VB * (Wi * hi^2) / Sum(Wi * hi^2), all zero when the sum is zero
seismic_force_of(Base_Shear, Wi_hi2, sum_Wi_hi2) ==
    IF sum_Wi_hi2 = 0 THEN [i \in 1..Len(Wi_hi2) |-> 0]
    ELSE [i \in 1..Len(Wi_hi2) |->
             FMul(Base_Shear, FDiv(Wi_hi2[i], sum_Wi_hi2))]

\* Mutant of calculate_sheet_3: the height above base is written over Level
calculate_sheet_3_overwrite(df, zone_factor) ==
    LET node_wt == [i \in Rows |-> df.Shell_Wt[i] + df.Liner_Load[i]
                                   + df.Platform_Load[i] + df.Corbel_Load[i]]
        df1 == SetCol(df, "Total_Node_Wt", node_wt)
        total_weight == SumSeq(df1.Total_Node_Wt)
        Base_Shear == FMul(Ah_of(zone_factor), total_weight)
        base_level == MinSeq(df1.Level)
        df2 == SetCol(df1, "Level", [i \in Rows |-> df1.Level[i] - base_level])
        df3 == SetCol(df2, "Wi_hi2",
                      [i \in Rows |-> FMul(df2.Total_Node_Wt[i], Sq(df2.Level[i]))])
        sum_Wi_hi2 == SumSeq(df3.Wi_hi2)
        df4 == SetCol(df3, "Seismic_Force",
                      seismic_force_of(Base_Shear, df3.Wi_hi2, sum_Wi_hi2))
        df5 == SetCol(df4, "Seismic_Shear", cumsum(df4.Seismic_Force))
        df6 == SetCol(df5, "Seismic_Moment",
                      moments_of(df5.Seismic_Shear, df5.Segment_H))
    IN  [df |-> df6, Base_Shear |-> Base_Shear]

\* calculate_sheet_3 returns (df, Base_Shear)
calculate_sheet_3(df, zone_factor) ==
    LET node_wt == [i \in Rows |-> df.Shell_Wt[i] + df.Liner_Load[i]
                                   + df.Platform_Load[i] + df.Corbel_Load[i]]
        df1 == SetCol(df, "Total_Node_Wt", node_wt)
        total_weight == SumSeq(df1.Total_Node_Wt)
        Base_Shear == FMul(Ah_of(zone_factor), total_weight)
        base_level == MinSeq(df1.Level)
        df2 == SetCol(df1, "Height_h", [i \in Rows |-> df1.Level[i] - base_level])
        df3 == SetCol(df2, "Wi_hi2",
                      [i \in Rows |-> FMul(df2.Total_Node_Wt[i], Sq(df2.Height_h[i]))])
        sum_Wi_hi2 == SumSeq(df3.Wi_hi2)
        df4 == SetCol(df3, "Seismic_Force",
                      seismic_force_of(Base_Shear, df3.Wi_hi2, sum_Wi_hi2))
        df5 == SetCol(df4, "Seismic_Shear", cumsum(df4.Seismic_Force))
        df6 == SetCol(df5, "Seismic_Moment",
                      moments_of(df5.Seismic_Shear, df5.Segment_H))
    IN  [df |-> df6, Base_Shear |-> Base_Shear]

---------------------------------------------------------------------------
\* 4. Sheet 4: stress analysis

\* Mutant of status_of: the boundary counted as tension
status_of_le(min_stress) == IF min_stress <= 0 THEN "TENSION" ELSE "OK"

\* 'Status': "TENSION" if min_stress < 0 else "OK"
status_of(min_stress) == IF min_stress < 0 THEN "TENSION" ELSE "OK"

\* sigma_direct = P / A if A > 0 else 0
sigma_direct_of(P, A) == IF A > 0 THEN FDiv(P, A) ELSE 0

\* sigma_bending = M / Z if Z > 0 else 0
sigma_bending_of(M, Z) == IF Z > 0 THEN FDiv(M, Z) ELSE 0

\* calculate_sheet_4 returns the result table; its argument is a copy
calculate_sheet_4(df) ==
    LET P == cumsum(df.Total_Node_Wt)
        M == [i \in Rows |-> Max(df.Wind_Moment[i], df.Seismic_Moment[i])]
        sd == [i \in Rows |-> sigma_direct_of(P[i], df.Area[i])]
        sb == [i \in Rows |-> sigma_bending_of(M[i], df.Z_Modulus[i])]
    IN  [Level |-> df.Level,
         Axial_P |-> P,
         Moment_M |-> M,
         Stress_Direct |-> sd,
         Stress_Bending |-> sb,
         Max_Comp |-> [i \in Rows |-> sd[i] + sb[i]],
         Min_Stress |-> [i \in Rows |-> sd[i] - sb[i]],
         Status |-> [i \in Rows |-> status_of(sd[i] - sb[i])]]

---------------------------------------------------------------------------
\* The values a user enters, per widget

ParamValues ==
    [total_height |-> {3000, 6000},
     top_inner_dia |-> {0, 135},
     thickness |-> {-20, 0, 20},
     wind_speed |-> {0, 4700},
     seismic_zone |-> {0, 16}]

\* the sidebar's number inputs
SidebarInputs == DOMAIN ParamValues

\* the editable columns of the grid (Shell_Wt is disabled)
CellValues ==
    [Level |-> {3100},
     Outer_Dia |-> {95},
     Inner_Dia |-> {200},
     Thickness |-> {30},
     Liner_Load |-> {1000},
     Platform_Load |-> {-500},
     Corbel_Load |-> {200}]

EditableCols == DOMAIN CellValues

\* the rows edited: the top segment's row and the raft row
EditRows == {2, N}

---------------------------------------------------------------------------
\* The application: one script run per widget event

Init ==
    /\ params = DefaultParams
    /\ workbook_data = None
    /\ base_shear = 0
    /\ df_stress = None
    /\ pc = "sidebar"
    /\ event = NoEvent
    /\ fault = "none"
    /\ actions = 0

\* A widget event starts a script run; the locals of the last run are gone.
StartRun(e) ==
    /\ pc = "idle"
    /\ actions < MaxActions
    /\ actions' = actions + 1
    /\ event' = e
    /\ pc' = "sidebar"
    /\ fault' = "none"
    /\ base_shear' = 0
    /\ df_stress' = None
    /\ UNCHANGED <<params, workbook_data>>

\* The user changes one of the sidebar's number inputs.
UserEditParam ==
    \E name \in SidebarInputs : \E v \in ParamValues[name] :
        /\ v # params[name]
        /\ StartRun([kind |-> "param", name |-> name, row |-> 0, val |-> v])

\* The user edits one cell of the grid (which the last run has rendered).
UserEditCell ==
    \E col \in EditableCols : \E r \in EditRows : \E v \in CellValues[col] :
        /\ fault = "none"
        /\ workbook_data # None
        /\ v # workbook_data[col][r]
        /\ StartRun([kind |-> "cell", name |-> col, row |-> r, val |-> v])

\* The user clicks Reset / Generate.
UserClickReset ==
    StartRun([kind |-> "reset", name |-> "", row |-> 0, val |-> 0])

\* The params after the number inputs of the sidebar returned
sidebar_params ==
    IF event.kind = "param"
    THEN [params EXCEPT ![event.name] = event.val]
    ELSE params

\* with st.sidebar, the button not clicked
Sidebar ==
    /\ pc = "sidebar"
    /\ event.kind # "reset"
    /\ params' = sidebar_params
    /\ pc' = "init"
    /\ UNCHANGED <<workbook_data, base_shear, df_stress, event, fault, actions>>

\* with st.sidebar, the button clicked: generate, then st.rerun()
ResetGenerate ==
    /\ pc = "sidebar"
    /\ event.kind = "reset"
    /\ ~generate_raises(params)
    /\ workbook_data' = generate_sheet_1(params)
    /\ event' = [kind |-> "rerun", name |-> "", row |-> 0, val |-> 0]
    /\ pc' = "sidebar"
    /\ UNCHANGED <<params, base_shear, df_stress, fault, actions>>

\* with st.sidebar, the button clicked: generate_sheet_1 raises, the run ends
ResetRaises ==
    /\ pc = "sidebar"
    /\ event.kind = "reset"
    /\ generate_raises(params)
    /\ fault' = "ZeroDivisionError"
    /\ event' = NoEvent
    /\ pc' = "idle"
    /\ UNCHANGED <<params, workbook_data, base_shear, df_stress, actions>>

\* Initialize if needed
InitWorkbook ==
    /\ pc = "init"
    /\ IF workbook_data # None
       THEN /\ pc' = "tab1"
            /\ UNCHANGED <<workbook_data, fault, event>>
       ELSE IF generate_raises(params)
       THEN /\ fault' = "ZeroDivisionError"
            /\ event' = NoEvent
            /\ pc' = "idle"
            /\ UNCHANGED workbook_data
       ELSE /\ workbook_data' = generate_sheet_1(params)
            /\ pc' = "tab1"
            /\ UNCHANGED <<fault, event>>
    /\ UNCHANGED <<params, base_shear, df_stress, actions>>

\* df_main.update(edited_df): the grid's columns, with the user's edit
update(df, e) ==
    IF e.kind = "cell"
    THEN [df EXCEPT ![e.name] = [@ EXCEPT ![e.row] = e.val]]
    ELSE df

\* Tab 1: the editable grid, edits saved
Tab1 ==
    /\ pc = "tab1"
    /\ workbook_data' = update(workbook_data, event)
    /\ pc' = "tab2"
    /\ UNCHANGED <<params, base_shear, df_stress, event, fault, actions>>

\* Tab 2: recalculate wind, merge results back
Tab2 ==
    /\ pc = "tab2"
    /\ workbook_data' = calculate_sheet_2(workbook_data, params.wind_speed)
    /\ pc' = "tab3"
    /\ UNCHANGED <<params, base_shear, df_stress, event, fault, actions>>

\* Tab 3: recalculate seismic, merge results back
Tab3 ==
    /\ pc = "tab3"
    /\ LET r == calculate_sheet_3(workbook_data, params.seismic_zone)
       IN  /\ workbook_data' = r.df
           /\ base_shear' = r.Base_Shear
    /\ pc' = "tab4"
    /\ UNCHANGED <<params, df_stress, event, fault, actions>>

\* Tab 4: the stress table; the script run ends
Tab4 ==
    /\ pc = "tab4"
    /\ df_stress' = calculate_sheet_4(workbook_data)
    /\ event' = NoEvent
    /\ pc' = "idle"
    /\ UNCHANGED <<params, workbook_data, base_shear, fault, actions>>

Next ==
    \/ UserEditParam
    \/ UserEditCell
    \/ UserClickReset
    \/ Sidebar
    \/ ResetGenerate
    \/ ResetRaises
    \/ InitWorkbook
    \/ Tab1
    \/ Tab2
    \/ Tab3
    \/ Tab4

Spec == Init /\ [][Next]_vars

---------------------------------------------------------------------------
\* Properties

\* a script run has passed tab 3: the seismic columns and base_shear are its own
PastTab3 == pc = "tab4" \/ (pc = "idle" /\ df_stress # None)

\* a script run has completed: the table and df_stress are its results
RunDone == pc = "idle" /\ df_stress # None

\* the step stores a table that generate_sheet_1 returned
GenStep == pc \in {"sidebar", "init"} /\ workbook_data' # workbook_data

NonDecreasing(s) == \A i \in 1..(Len(s) - 1) : s[i] <= s[i + 1]

StrictlyDecreasing(s) == \A i \in 1..(Len(s) - 1) : s[i] > s[i + 1]

\* s[1] + ... + s[i]
RECURSIVE SumUpTo(_, _)
SumUpTo(s, i) == IF i = 0 THEN 0 ELSE SumUpTo(s, i - 1) + s[i]

\* the rounding a sum of the distributed forces can carry: one hundredth of
\* the ratio and one hundredth of the product per row
SumTolerance(b) == N * (Abs(b) \div Scale + 1)

\* C1: after calculate_sheet_3 the seismic forces of all levels sum to the
\* returned Base_Shear (= Ah x total weight) within rounding, and every force
\* is 0 when the total weight is 0.
C1_ForcesSumToBaseShear ==
    PastTab3 =>
        LET W == SumSeq(workbook_data.Total_Node_Wt)
            f == workbook_data.Seismic_Force
        IN  /\ base_shear = FMul(Ah_of(params.seismic_zone), W)
            /\ Abs(SumSeq(f) - base_shear) <= SumTolerance(base_shear)
            /\ W = 0 => \A i \in Rows : f[i] = 0

\* Segment_H as the generator's rule gives it for a Level column
derived_segment(lv, i) ==
    LET h0 == IF i < Len(lv) THEN lv[i] - lv[i + 1] ELSE 0
        h1 == IF lv[i] = 3030 THEN 0 ELSE h0
    IN  IF lv[i] = 3000 THEN 30 ELSE h1

\* C2: once the script run of the last edit has completed, every derived
\* column equals the value derived from the current inputs.
C2_DerivedColumnsCurrent ==
    RunDone =>
        LET df == workbook_data
        IN  /\ \A i \in Rows :
                /\ df.Segment_H[i] = derived_segment(df.Level, i)
                /\ df.Area[i] = area_of(df.Outer_Dia[i], df.Inner_Dia[i])
                /\ df.Inertia[i] = inertia_of(df.Outer_Dia[i], df.Inner_Dia[i])
                /\ half_of(df.Outer_Dia[i]) # 0 =>
                       df.Z_Modulus[i] = z_mod_of(df.Inertia[i], df.Outer_Dia[i])
                /\ df.Shell_Wt[i] =
                       shell_wt_of(df.Area[i], df.Segment_H[i], params.conc_density)
            /\ calculate_sheet_2(df, params.wind_speed) = df
            /\ calculate_sheet_3(df, params.seismic_zone).df = df
            /\ calculate_sheet_4(df) = df_stress

\* C3: every level of the table has Outer_Dia >= Inner_Dia, Area >= 0 and
\* Inertia >= 0: invalid geometry is rejected or clamped, never propagated.
C3_GeometryValid ==
    workbook_data # None =>
        \A i \in Rows :
            /\ workbook_data.Outer_Dia[i] >= workbook_data.Inner_Dia[i]
            /\ workbook_data.Area[i] >= 0
            /\ workbook_data.Inertia[i] >= 0

\* the difference of a level's elevation and the next one's, 0 for the last
LevelStep(df, i) == IF i < N THEN df.Level[i] - df.Level[i + 1] ELSE 0

\* C4 as claimed: in the generated table every Segment_H is the difference to
\* the next level (0 for the last), the segment heights sum to the distance
\* between top and base, and Shell_Wt = Area x that difference x density.
C4_SegmentIsLevelStep ==
    [][GenStep =>
        LET df == workbook_data'
        IN  /\ \A i \in Rows :
                /\ df.Segment_H[i] = LevelStep(df, i)
                /\ df.Shell_Wt[i] =
                       shell_wt_of(df.Area[i], LevelStep(df, i), params.conc_density)
            /\ SumSeq(df.Segment_H) = df.Level[1] - df.Level[N]]_vars

\* C4 as amended: Segment_H is the difference to the next level except for the
\* two top rows, where level 30.3 has 0 and level 30.0 has 0.3; the last level
\* has 0; the segment heights sum to the top-to-base distance less 2.5 m; and
\* Shell_Wt = Area x Segment_H x density.
C4_SegmentWithTopRowFix ==
    [][GenStep =>
        LET df == workbook_data'
        IN  /\ df.Segment_H[1] = 0
            /\ df.Segment_H[2] = 30
            /\ \A i \in Rows \ {1, 2} : df.Segment_H[i] = LevelStep(df, i)
            /\ \A i \in Rows :
                   df.Shell_Wt[i] =
                       shell_wt_of(df.Area[i], df.Segment_H[i], params.conc_density)
            /\ SumSeq(df.Segment_H) = df.Level[1] - df.Level[N] - 250]_vars

\* a table regenerated by Reset / Generate from edited parameters
C4_Witness ==
    /\ pc = "sidebar"
    /\ event.kind = "rerun"
    /\ workbook_data.Thickness[1] = 0
    /\ workbook_data.Segment_H[2] = 30
    /\ workbook_data.Segment_H[3] = 250

NonNegativeLoads ==
    \A i \in Rows :
        /\ workbook_data.Shell_Wt[i] >= 0
        /\ workbook_data.Liner_Load[i] >= 0
        /\ workbook_data.Platform_Load[i] >= 0
        /\ workbook_data.Corbel_Load[i] >= 0
        /\ workbook_data.Wind_Force_Ton[i] >= 0
        /\ workbook_data.Seismic_Force[i] >= 0

\* C6: with all per-level weights and forces >= 0, the cumulative series are
\* non-decreasing from the top level to the base level.
C6_CumulativeNonDecreasing ==
    (RunDone /\ NonNegativeLoads) =>
        /\ NonDecreasing(workbook_data.Wind_Shear)
        /\ NonDecreasing(workbook_data.Seismic_Shear)
        /\ NonDecreasing(workbook_data.Wind_Moment)
        /\ NonDecreasing(workbook_data.Seismic_Moment)
        /\ NonDecreasing(df_stress.Axial_P)

C6_Witness ==
    /\ RunDone
    /\ NonNegativeLoads
    /\ workbook_data.Liner_Load[2] > 0
    /\ workbook_data.Wind_Shear[N] > workbook_data.Wind_Shear[2]
    /\ workbook_data.Seismic_Shear[N] > workbook_data.Seismic_Shear[2]
    /\ df_stress.Axial_P[N] > df_stress.Axial_P[2]

GeometryCols ==
    {"Level", "Segment_H", "Outer_Dia", "Inner_Dia", "Thickness", "Area",
     "Inertia", "Z_Modulus"}

UserLoadCols == {"Liner_Load", "Platform_Load", "Corbel_Load"}

\* C7: the wind, seismic and stress stages leave the geometry columns and the
\* user-entered loads of the workbook table unchanged; so does every step
\* other than the grid's update and Reset / Generate.
C7_StagesKeepInputs ==
    [][(/\ workbook_data # None
        /\ pc # "tab1"
        /\ ~(pc = "sidebar" /\ event.kind = "reset")) =>
            \A c \in GeometryCols \cup UserLoadCols :
                workbook_data'[c] = workbook_data[c]]_vars

\* a user-entered load that is still there after a later recomputation
C7_Witness ==
    /\ RunDone
    /\ event = NoEvent
    /\ actions >= 2
    /\ workbook_data.Liner_Load[2] = 1000
    /\ workbook_data.Outer_Dia[N] = 95

\* C8: Status is TENSION exactly when Min_Stress < 0; Min_Stress 0 is OK.
C8_TensionIffNegative ==
    df_stress # None =>
        \A i \in Rows :
            /\ df_stress.Status[i] = "TENSION" <=> df_stress.Min_Stress[i] < 0
            /\ df_stress.Min_Stress[i] = 0 => df_stress.Status[i] = "OK"
            /\ df_stress.Status[i] \in {"TENSION", "OK"}

C8_Witness ==
    /\ df_stress # None
    /\ \E i \in Rows :
        df_stress.Min_Stress[i] = 0 /\ df_stress.Status[i] = "OK"
    /\ \E i \in Rows :
        df_stress.Min_Stress[i] < 0 /\ df_stress.Status[i] = "TENSION"
    /\ \E i \in Rows :
        df_stress.Min_Stress[i] > 0 /\ df_stress.Status[i] = "OK"

\* C9: no script run ends in a division fault, and a level with zero area or
\* zero section modulus has Stress_Direct, resp. Stress_Bending, 0.
C9_NoDivisionFault ==
    /\ fault = "none"
    /\ RunDone =>
        \A i \in Rows :
            /\ workbook_data.Area[i] = 0 => df_stress.Stress_Direct[i] = 0
            /\ workbook_data.Z_Modulus[i] = 0 => df_stress.Stress_Bending[i] = 0

\* the cantilever recurrence of one lateral load
Cantilever(force, shear, moment, seg) ==
    /\ \A i \in Rows : shear[i] = SumUpTo(force, i)
    /\ moment[1] = 0
    /\ \A i \in 2..N : moment[i] = moment[i - 1] + FMul(shear[i - 1], seg[i - 1])

\* C10: wind and seismic shear are the running sums of the forces, the moments
\* follow Moment[i] = Moment[i-1] + Shear[i-1] x Segment_H[i-1] from 0 at the
\* top, and the design moment is the larger of the two moments of the level.
C10_CantileverRecurrence ==
    RunDone =>
        LET df == workbook_data
        IN  /\ Cantilever(df.Wind_Force_Ton, df.Wind_Shear, df.Wind_Moment,
                          df.Segment_H)
            /\ Cantilever(df.Seismic_Force, df.Seismic_Shear, df.Seismic_Moment,
                          df.Segment_H)
            /\ \A i \in Rows :
                /\ df_stress.Moment_M[i] >= df.Wind_Moment[i]
                /\ df_stress.Moment_M[i] >= df.Seismic_Moment[i]
                /\ df_stress.Moment_M[i] \in {df.Wind_Moment[i], df.Seismic_Moment[i]}

C10_Witness ==
    /\ RunDone
    /\ workbook_data.Wind_Force_Ton[N - 1] > 0
    /\ workbook_data.Seismic_Moment[N] > 0
    /\ \E i \in Rows : workbook_data.Wind_Moment[i] > workbook_data.Seismic_Moment[i]
    /\ \E i \in Rows : workbook_data.Wind_Moment[i] < workbook_data.Seismic_Moment[i]

====
